---- MODULE Spec2Model ----
(***************************************************************************)
(* A model of xuanke_final.py: the response decoder (smart_read), the      *)
(* bounce detector (is_login_bounce), catalog resolution and parsing and   *)
(* the selection mapping (course_info), and the submission loop            *)
(* (grab_courses), driven by main.                                         *)
(*                                                                         *)
(* Text is a sequence of Unicode code points and a byte payload a sequence *)
(* of byte values, so that lower(), isdigit(), int(), the regular          *)
(* expressions and the substring tests are computed, not assumed.          *)
(* Time is counted in tenths of a second.                                  *)
(***************************************************************************)
EXTENDS Integers, Sequences, FiniteSets, TLC

VARIABLES
    pc,            \* position of the process in main / course_info / grab_courses
    pid,           \* pid of main and course_info
    rchk,          \* the login probe's response (make_session)
    site,          \* which call of _try_fetch_data is running: "first" or "cand"
    cur,           \* the pid argument of the running _try_fetch_data
    queue,         \* candidates the for loop of course_info has not tried yet
    status,        \* status, text, used of course_info
    text,
    used,
    id_list,       \* id_list, n, chosen of course_info
    n,
    chosen,
    open_at,       \* the open-time string of grab_courses, and dt parsed from it
    dt,
    post_urls,     \* post_urls and forms of grab_courses
    forms,
    now,           \* datetime.now() read at the start of the pass
    last_post_ts,
    di,            \* index of the form of the running "for data in forms"
    ui,            \* index of the URL of the running "for url in post_urls"
    sent_ok,
    req,           \* the request in flight, if any
    mono,          \* time.monotonic() of the machine
    wall,          \* the machine's wall clock
    hist,          \* history of the run (observations, not program state)
    call,          \* a single call of a pure function: its name and arguments
    ret            \* and what the call returned or raised

vars == <<pc, pid, rchk, site, cur, queue, status, text, used, id_list, n, chosen,
          open_at, dt, post_urls, forms, now, last_post_ts, di, ui, sent_ok, req,
          mono, wall, hist, call, ret>>

setupVars == <<pid, rchk, site, cur, queue, status, text, used, id_list, n, chosen>>
loopVars  == <<open_at, dt, post_urls, forms, now, last_post_ts, di, ui, sent_ok, req>>
clockVars == <<mono, wall>>
fnVars    == <<call, ret>>

-----------------------------------------------------------------------------
(* Strings.                                                                *)

Min(a, b) == IF a <= b THEN a ELSE b

\* p occurs in s at position i
StartsWithAt(s, i, p) ==
    /\ i >= 1
    /\ i + Len(p) - 1 <= Len(s)
    /\ \A k \in 1..Len(p) : s[i + k - 1] = p[k]

\* Python's "p in s"
Contains(s, p) == \E i \in 1..(Len(s) + 1) : StartsWithAt(s, i, p)

\* str.lower() of one character: only A-Z occur uppercased in the model's texts
LowerChar(c) == IF c \in 65..90 THEN c + 32 ELSE c

Lower(s) == [i \in 1..Len(s) |-> LowerChar(s[i])]

\* a Unicode decimal digit (category Nd): what \d of re matches and int() accepts.
\* ASCII 0-9 and ARABIC-INDIC DIGIT ZERO..NINE stand for the category.
IsDecimalChar(c) == c \in 48..57 \/ c \in 1632..1641

DecimalValue(c) == IF c \in 48..57 THEN c - 48 ELSE c - 1632

\* str.isdigit() of one character: the decimal digits and the characters with
\* Numeric_Type=Digit, such as SUPERSCRIPT TWO, THREE and ONE
IsDigitChar(c) == IsDecimalChar(c) \/ c \in {178, 179, 185}

\* the least position >= i of s holding a character that is not in class d
\* (Len(s) + 1 if none), d being "dec" (\d), "notquote" ([^']) or "space" (\s)
RECURSIVE RunEnd(_, _, _)
RunEnd(s, i, d) ==
    IF i > Len(s) THEN i
    ELSE IF \/ (d = "dec" /\ IsDecimalChar(s[i]))
            \/ (d = "notquote" /\ s[i] # 39)
            \/ (d = "space" /\ s[i] \in {9, 10, 11, 12, 13, 32})
         THEN RunEnd(s, i + 1, d)
         ELSE i

\* the least position >= i where p occurs in s, 0 if none
RECURSIVE IndexFrom(_, _, _)
IndexFrom(s, i, p) ==
    IF i + Len(p) - 1 > Len(s) THEN 0
    ELSE IF StartsWithAt(s, i, p) THEN i
    ELSE IndexFrom(s, i + 1, p)

\* str.split(sep) from position i on
RECURSIVE SplitFrom(_, _, _)
SplitFrom(s, i, sep) ==
    LET j == IndexFrom(s, i, sep) IN
    IF j = 0 THEN << SubSeq(s, i, Len(s)) >>
    ELSE << SubSeq(s, i, j - 1) >> \o SplitFrom(s, j + Len(sep), sep)

Split(s, sep) == SplitFrom(s, 1, sep)

\* all sequences over S of length at most k
SeqsUpTo(S, k) == UNION { [1..m -> S] : m \in 0..k }

-----------------------------------------------------------------------------
(* is_login_bounce.  A response is a record; urlOk / textOk say whether     *)
(* reading resp.url / resp.text succeeds.                                   *)

\* "authserver"
AUTH_MARKER == <<97, 117, 116, 104, 115, 101, 114, 118, 101, 114>>

\* the phrase of the unified-authentication page (six CJK characters)
AUTH_PHRASE == <<32479, 19968, 36523, 20221, 35748, 35777>>

\* reading resp.url and resp.text: the value, or an exception
ReadUrl(resp) ==
    IF resp.urlOk THEN [raised |-> FALSE, v |-> resp.url] ELSE [raised |-> TRUE, v |-> <<>>]

ReadText(resp) ==
    IF resp.textOk THEN [raised |-> FALSE, v |-> resp.text] ELSE [raised |-> TRUE, v |-> <<>>]

UrlCaseKept(resp) ==
    LET r == ReadUrl(resp) IN
    IF r.raised THEN [raised |-> FALSE, v |-> <<>>] ELSE r

\* try: url_l = resp.url.lower()  except Exception: url_l = ""
UrlLower(resp) ==
    LET r == ReadUrl(resp) IN
    IF r.raised THEN [raised |-> FALSE, v |-> <<>>]
    ELSE [raised |-> FALSE, v |-> Lower(r.v)]

\* text = "";  try: text = resp.text  except Exception: pass
BodyText(resp) ==
    LET r == ReadText(resp) IN
    IF r.raised THEN [raised |-> FALSE, v |-> <<>>] ELSE r

\* what is_login_bounce returns, or that it raised
is_login_bounce(resp) ==
    LET u == UrlLower(resp)
        t == BodyText(resp)
    IN IF u.raised \/ t.raised THEN [raised |-> TRUE, value |-> FALSE]
       ELSE [raised |-> FALSE,
             value |-> Contains(t.v, AUTH_PHRASE) \/ Contains(u.v, AUTH_MARKER)]

-----------------------------------------------------------------------------
(* smart_read.  resp.content is a sequence of bytes; resp.encoding and      *)
(* resp.apparent_encoding are codec names, "" or NONE.  A step that can     *)
(* raise returns a record with the field raised.                            *)

NONE == "<None>"

\* gzip.compress(b"A", mtime=0) and zlib.compress(b"A"): a valid stream of each kind
GzipOfA == <<31, 139, 8, 0, 0, 0, 0, 0, 2, 3, 115, 4, 0, 139, 158, 217, 211, 1, 0, 0, 0>>
ZlibOfA == <<120, 156, 115, 4, 0, 0, 66, 0, 66>>

\* gzip.decompress / zlib.decompress: the valid streams of the model decompress to
\* b"A"; every other payload of the model is shorter than the shortest valid
\* stream, or a cut one, and raises
GzipDecompress(b) ==
    IF b = GzipOfA THEN [raised |-> FALSE, out |-> <<65>>]
                   ELSE [raised |-> TRUE, out |-> <<>>]

ZlibDecompress(b) ==
    IF b = ZlibOfA THEN [raised |-> FALSE, out |-> <<65>>]
                   ELSE [raised |-> TRUE, out |-> <<>>]

IsContinuation(b) == b \in 128..191

\* bytes.decode("utf-8", errors="ignore") from position i on: well-formed one- to
\* four-byte sequences give their code point, any other byte is dropped
RECURSIVE Utf8Ignore(_, _)
Utf8Ignore(b, i) ==
    IF i > Len(b) THEN <<>>
    ELSE IF b[i] < 128 THEN <<b[i]>> \o Utf8Ignore(b, i + 1)
    ELSE IF /\ b[i] \in 194..223
            /\ i + 1 <= Len(b) /\ IsContinuation(b[i + 1])
         THEN <<(b[i] - 192) * 64 + (b[i + 1] - 128)>> \o Utf8Ignore(b, i + 2)
    ELSE IF /\ b[i] \in 224..239
            /\ i + 2 <= Len(b) /\ IsContinuation(b[i + 1]) /\ IsContinuation(b[i + 2])
            /\ (b[i] = 224 => b[i + 1] >= 160)
            /\ (b[i] = 237 => b[i + 1] <= 159)
         THEN <<(b[i] - 224) * 4096 + (b[i + 1] - 128) * 64 + (b[i + 2] - 128)>>
              \o Utf8Ignore(b, i + 3)
    ELSE IF /\ b[i] \in 240..244
            /\ i + 3 <= Len(b)
            /\ IsContinuation(b[i + 1]) /\ IsContinuation(b[i + 2])
            /\ IsContinuation(b[i + 3])
            /\ (b[i] = 240 => b[i + 1] >= 144)
            /\ (b[i] = 244 => b[i + 1] <= 143)
         THEN <<(b[i] - 240) * 262144 + (b[i + 1] - 128) * 4096
                + (b[i + 2] - 128) * 64 + (b[i + 3] - 128)>> \o Utf8Ignore(b, i + 4)
    ELSE Utf8Ignore(b, i + 1)

\* the double-byte codecs with errors="ignore", on the payloads of the model: an
\* ASCII byte is itself; a lead byte with its trail byte is one character of the
\* codec's table, written here as 65536 + the pair's number; a lead byte without
\* a valid trail byte is dropped
RECURSIVE GbIgnore(_, _)
GbIgnore(b, i) ==
    IF i > Len(b) THEN <<>>
    ELSE IF b[i] < 128 THEN <<b[i]>> \o GbIgnore(b, i + 1)
    ELSE IF /\ b[i] \in 129..254
            /\ i + 1 <= Len(b) /\ b[i + 1] \in 64..254 /\ b[i + 1] # 127
         THEN <<65536 + b[i] * 256 + b[i + 1]>> \o GbIgnore(b, i + 2)
    ELSE GbIgnore(b, i + 1)

\* raw.decode(enc, errors="ignore"): a LookupError for a codec Python does not know
Decode(enc, raw) ==
    IF enc \in {"utf-8", "UTF-8"} THEN [raised |-> FALSE, text |-> Utf8Ignore(raw, 1)]
    ELSE IF enc \in {"gb18030", "gbk", "gb2312", "GBK"}
         THEN [raised |-> FALSE, text |-> GbIgnore(raw, 1)]
    ELSE IF enc \in {"latin1", "ISO-8859-1"} THEN [raised |-> FALSE, text |-> raw]
    ELSE [raised |-> TRUE, text |-> <<>>]

IsGzipMagic(b) == Len(b) >= 2 /\ b[1] = 31 /\ b[2] = 139

IsZlibHeader(b) == Len(b) >= 2 /\ b[1] = 120 /\ b[2] \in {1, 94, 156, 218}

MaybeDecompressNoCatch(b) ==
    IF IsGzipMagic(b) THEN GzipDecompress(b)
    ELSE IF IsZlibHeader(b) THEN ZlibDecompress(b)
    ELSE [raised |-> FALSE, out |-> b]

\* _maybe_decompress: either decompression in try / except Exception: return b
MaybeDecompress(b) ==
    IF IsGzipMagic(b)
    THEN LET r == GzipDecompress(b) IN
         IF r.raised THEN [raised |-> FALSE, out |-> b] ELSE r
    ELSE IF IsZlibHeader(b)
    THEN LET r == ZlibDecompress(b) IN
         IF r.raised THEN [raised |-> FALSE, out |-> b] ELSE r
    ELSE [raised |-> FALSE, out |-> b]

\* the list the for loop of smart_read walks
EncodingCandidates(resp) ==
    <<resp.encoding, resp.apparent_encoding,
      "utf-8", "gb18030", "gbk", "gb2312", "latin1">>

\* for enc in [...]: if not enc: continue; try: return raw.decode(enc, ...), enc
\* except Exception: continue;  then the fallback return
RECURSIVE TryDecode(_, _, _)
TryDecode(encs, i, raw) ==
    IF i > Len(encs)
    THEN [raised |-> FALSE, text |-> Utf8Ignore(raw, 1), enc |-> "utf-8"]
    ELSE IF encs[i] \in {NONE, ""} THEN TryDecode(encs, i + 1, raw)
    ELSE LET d == Decode(encs[i], raw) IN
         IF d.raised THEN TryDecode(encs, i + 1, raw)
         ELSE [raised |-> FALSE, text |-> d.text, enc |-> encs[i]]

\* resp.content of a response without a body is b"" here, as "or b''" makes it
smart_read(resp) ==
    LET z == MaybeDecompress(resp.content) IN
    IF z.raised THEN [raised |-> TRUE, text |-> <<>>, enc |-> ""]
    ELSE TryDecode(EncodingCandidates(resp), 1, z.out)

-----------------------------------------------------------------------------
(* Catalog parsing and selection mapping of course_info.                    *)

\* "id:", "code:", "name:'" and "<html"
ID_MARK   == <<105, 100, 58>>
CODE_MARK == <<99, 111, 100, 101, 58>>
NAME_MARK == <<110, 97, 109, 101, 58, 39>>
HTML_MARK == <<60, 104, 116, 109, 108>>

\* re.compile(r"id:(\d+),").findall(s) from position i on: \d+ is greedy, and a
\* shorter run of digits is followed by a digit, never by the comma
RECURSIVE FindIds(_, _)
FindIds(s, i) ==
    IF i > Len(s) THEN <<>>
    ELSE IF StartsWithAt(s, i, ID_MARK)
    THEN LET e == RunEnd(s, i + 3, "dec") IN
         IF e > i + 3 /\ e <= Len(s) /\ s[e] = 44
         THEN <<SubSeq(s, i + 3, e - 1)>> \o FindIds(s, e + 1)
         ELSE FindIds(s, i + 1)
    ELSE FindIds(s, i + 1)

\* re.compile(r"name:'([^']*)',").findall(s) from position i on
RECURSIVE FindNames(_, _)
FindNames(s, i) ==
    IF i > Len(s) THEN <<>>
    ELSE IF StartsWithAt(s, i, NAME_MARK)
    THEN LET q == RunEnd(s, i + 6, "notquote") IN
         IF q + 1 <= Len(s) /\ s[q + 1] = 44
         THEN <<SubSeq(s, i + 6, q - 1)>> \o FindNames(s, q + 2)
         ELSE FindNames(s, i + 1)
    ELSE FindNames(s, i + 1)

RECURSIVE CollectNamesSkipping(_, _)
CollectNamesSkipping(chunks, i) ==
    IF i > Len(chunks) THEN <<>>
    ELSE LET m == FindNames(chunks[i], 1) IN
         IF m # <<>> THEN <<m[1]>> \o CollectNamesSkipping(chunks, i + 1)
         ELSE CollectNamesSkipping(chunks, i + 1)

RECURSIVE CollectNamesToEnd(_, _)
CollectNamesToEnd(chunks, i) ==
    IF i > Len(chunks) THEN <<>>
    ELSE LET m == FindNames(chunks[i], 1) IN
         <<IF m # <<>> THEN m[1] ELSE <<>>>> \o CollectNamesToEnd(chunks, i + 1)

\* for item in text.split("code:"): m = find_name.findall(item);
\* if m: name_list.append(m[0])  else: break
RECURSIVE CollectNames(_, _)
CollectNames(chunks, i) ==
    IF i > Len(chunks) THEN <<>>
    ELSE LET m == FindNames(chunks[i], 1) IN
         IF m # <<>> THEN <<m[1]>> \o CollectNames(chunks, i + 1)
         ELSE <<>>

\* id_list, name_list and n = min(len(id_list), len(name_list)); entries are
\* the lines "index, course id, name" the loop over range(n) prints
ParseCatalog(s) ==
    LET ids   == FindIds(s, 1)
        names == CollectNames(Split(s, CODE_MARK), 1)
        cnt   == Min(Len(ids), Len(names))
    IN [id_list |-> ids, name_list |-> names, n |-> cnt,
        entries |-> [i \in 1..cnt |-> <<i - 1, ids[i], names[i]>>]]

Range(f) == { f[i] : i \in DOMAIN f }

\* str.isdigit(): at least one character and every character a digit
IsDigit(t) == Len(t) > 0 /\ \A i \in 1..Len(t) : IsDigitChar(t[i])

\* the number the first k characters of t write, t made of decimal digits
RECURSIVE DecimalNumber(_, _)
DecimalNumber(t, k) ==
    IF k = 0 THEN 0 ELSE 10 * DecimalNumber(t, k - 1) + DecimalValue(t[k])

\* int(t) for a t that passed isdigit(): ValueError unless every character is a
\* decimal digit
IntOf(t) ==
    IF \A i \in 1..Len(t) : IsDecimalChar(t[i])
    THEN [raised |-> FALSE, value |-> DecimalNumber(t, Len(t))]
    ELSE [raised |-> TRUE, value |-> 0]

\* 0 <= idx < n
InRange(idx, cnt) == 0 <= idx /\ idx < cnt

KnownIdAlways(t, ids) == TRUE

\* t in id_set, id_set being set(id_list)
KnownId(t, ids) == t \in Range(ids)

\* the loop "for t in tokens" from token i on, chosen being acc so far
RECURSIVE SelectFrom(_, _, _, _, _)
SelectFrom(tokens, i, ids, cnt, acc) ==
    IF i > Len(tokens) THEN [raised |-> FALSE, chosen |-> acc]
    ELSE LET t == tokens[i] IN
         IF ~IsDigit(t) THEN SelectFrom(tokens, i + 1, ids, cnt, acc)
         ELSE LET idx == IntOf(t) IN
              IF idx.raised THEN [raised |-> TRUE, chosen |-> acc]
              ELSE IF InRange(idx.value, cnt)
              THEN SelectFrom(tokens, i + 1, ids, cnt, Append(acc, ids[idx.value + 1]))
              ELSE IF KnownId(t, ids)
              THEN SelectFrom(tokens, i + 1, ids, cnt, Append(acc, t))
              ELSE SelectFrom(tokens, i + 1, ids, cnt, acc)

MapSelections(tokens, ids, cnt) == SelectFrom(tokens, 1, ids, cnt, <<>>)

-----------------------------------------------------------------------------
(* Responses of the server, as the requests library hands them over.        *)

\* str.encode("utf-8") of text below U+10000
RECURSIVE Utf8Encode(_, _)
Utf8Encode(s, i) ==
    IF i > Len(s) THEN <<>>
    ELSE (IF s[i] < 128 THEN <<s[i]>>
          ELSE IF s[i] < 2048 THEN <<192 + (s[i] \div 64), 128 + (s[i] % 64)>>
          ELSE <<224 + (s[i] \div 4096), 128 + ((s[i] \div 64) % 64), 128 + (s[i] % 64)>>)
         \o Utf8Encode(s, i + 1)

\* a response with final URL u and a UTF-8 body declared as such
MkResp(st, u, body) ==
    [status_code |-> st, urlOk |-> TRUE, url |-> u, textOk |-> TRUE, text |-> body,
     content |-> Utf8Encode(body, 1), encoding |-> "utf-8",
     apparent_encoding |-> "utf-8"]

\* final URLs: "/eams/x.action" for a page of the site, and the authentication
\* service's "//AuthServer/login" after a redirect
SITE_URL == <<47, 101, 97, 109, 115, 47, 120, 46, 97, 99, 116, 105, 111, 110>>
AUTH_URL == <<47, 47, 65, 117, 116, 104, 83, 101, 114, 118, 101, 114, 47, 108, 111, 103, 105, 110>>

\* "ok"
OK_BODY == <<111, 107>>

\* the phrase of the click-rate limiter (seven CJK characters)
TOO_FAST_PHRASE == <<35831, 19981, 35201, 36807, 24555, 28857, 20987>>

\* the login probe and the submissions: a page of the site, a redirect to the
\* authentication service, the authentication page served under the site's URL,
\* and the authentication service answering 503
BounceByUrl  == MkResp(200, AUTH_URL, OK_BODY)
BounceByBody == MkResp(200, SITE_URL, AUTH_PHRASE)
BounceUnavailable == MkResp(503, AUTH_URL, OK_BODY)
ProbeResponses == { MkResp(200, SITE_URL, OK_BODY), BounceByUrl, BounceByBody }

PostResponses ==
    { MkResp(200, SITE_URL, OK_BODY), MkResp(500, SITE_URL, OK_BODY),
      BounceByUrl, BounceByBody, BounceUnavailable,
      MkResp(200, SITE_URL, TOO_FAST_PHRASE),
      MkResp(429, SITE_URL, OK_BODY), MkResp(503, SITE_URL, OK_BODY) }

\* catalog bodies: two records with the name before "code:" ("id:1001,name:'Math',
\* code:x,id:1002,name:'Physics',code:y,"), one record with "code:" before the name
\* ("id:1001,code:x name:'Math',"), "<HTML>id:1,", "id:x" and "{}"
BodyTwoCourses ==
    <<105, 100, 58, 49, 48, 48, 49, 44, 110, 97, 109, 101, 58, 39, 77, 97, 116, 104, 39, 44,
      99, 111, 100, 101, 58, 120, 44,
      105, 100, 58, 49, 48, 48, 50, 44, 110, 97, 109, 101, 58, 39, 80, 104, 121, 115, 105,
      99, 115, 39, 44, 99, 111, 100, 101, 58, 121, 44>>
BodyCodeFirst ==
    <<105, 100, 58, 49, 48, 48, 49, 44, 99, 111, 100, 101, 58, 120, 32,
      110, 97, 109, 101, 58, 39, 77, 97, 116, 104, 39, 44>>
BodyHtml   == <<60, 72, 84, 77, 76, 62, 105, 100, 58, 49, 44>>
BodyNoIds  == <<105, 100, 58, 120>>
BodyEmpty  == <<123, 125>>

DataResponses ==
    { MkResp(200, SITE_URL, BodyTwoCourses), MkResp(200, SITE_URL, BodyCodeFirst),
      MkResp(200, SITE_URL, BodyHtml), MkResp(200, SITE_URL, BodyNoIds),
      MkResp(200, SITE_URL, BodyEmpty), MkResp(500, SITE_URL, BodyTwoCourses) }

-----------------------------------------------------------------------------
(* _extract_profile_ids.                                                    *)

\* "profileId" and "electionProfile.id"
KW_PROFILE  == <<112, 114, 111, 102, 105, 108, 101, 73, 100>>
KW_ELECTION == <<101, 108, 101, 99, 116, 105, 111, 110, 80, 114, 111, 102, 105, 108, 101,
                 46, 105, 100>>

\* \w
IsWordChar(c) == c \in 48..57 \/ c \in 65..90 \/ c \in 97..122 \/ c = 95

\* the length of the parameter name that starts at i, 0 if none does
KeywordAt(s, i) ==
    IF StartsWithAt(s, i, KW_PROFILE) THEN Len(KW_PROFILE)
    ELSE IF StartsWithAt(s, i, KW_ELECTION) THEN Len(KW_ELECTION)
    ELSE 0

\* _ID_PATTERNS[0] tried at position i: [from, to] of the group (\d+), or [0, 0].
\* The \b after the name holds whenever \s*[:=] follows.
MatchAssignAt(s, i) ==
    LET l == KeywordAt(s, i)
        j == RunEnd(s, i + l, "space")
        k == RunEnd(s, j + 1, "space")
        d == IF k <= Len(s) /\ s[k] \in {39, 34} /\ k + 1 <= Len(s)
                /\ IsDecimalChar(s[k + 1])
             THEN k + 1 ELSE k
        e == RunEnd(s, d, "dec")
    IN IF /\ l > 0
          /\ (i = 1 \/ ~IsWordChar(s[i - 1]))
          /\ j <= Len(s) /\ s[j] \in {58, 61}
          /\ e > d
       THEN <<d, e - 1>> ELSE <<0, 0>>

\* _ID_PATTERNS[1] tried at position i
MatchQueryAt(s, i) ==
    LET l == KeywordAt(s, i + 1)
        d == i + l + 2
        e == RunEnd(s, d, "dec")
    IN IF /\ s[i] \in {63, 38}
          /\ l > 0
          /\ i + l + 1 <= Len(s) /\ s[i + l + 1] = 61
          /\ e > d
       THEN <<d, e - 1>> ELSE <<0, 0>>

\* pat.findall(html) from position i on, pat being "assign" or "query"
RECURSIVE FindProfileIds(_, _, _)
FindProfileIds(s, i, pat) ==
    IF i > Len(s) THEN <<>>
    ELSE LET m == IF pat = "assign" THEN MatchAssignAt(s, i) ELSE MatchQueryAt(s, i) IN
         IF m[1] > 0 THEN <<SubSeq(s, m[1], m[2])>> \o FindProfileIds(s, m[2] + 1, pat)
         ELSE FindProfileIds(s, i + 1, pat)

\* the loop "for h in hits: if h not in seen: ..." from hit i on
RECURSIVE DedupFrom(_, _, _)
DedupFrom(hits, i, out) ==
    IF i > Len(hits) THEN out
    ELSE IF hits[i] \in Range(out) THEN DedupFrom(hits, i + 1, out)
    ELSE DedupFrom(hits, i + 1, Append(out, hits[i]))

ExtractWithoutDedup(html) ==
    FindProfileIds(html, 1, "assign") \o FindProfileIds(html, 1, "query")

\* hits of both patterns, then the loop that drops what was seen
ExtractProfileIds(html) ==
    DedupFrom(FindProfileIds(html, 1, "assign") \o FindProfileIds(html, 1, "query"),
              1, <<>>)

\* pages of the site: "x" (no profile id), "profileId: '77'" and
\* "?electionProfile.id=88&profileId=77"
PageNone   == <<120>>
PageAssign == KW_PROFILE \o <<58, 32, 39, 55, 55, 39>>
PageQuery  == <<63>> \o KW_ELECTION \o <<61, 56, 56, 38>> \o KW_PROFILE \o <<61, 55, 55>>
Pages == { PageNone, PageAssign, PageQuery }

-----------------------------------------------------------------------------
(* Bounds of the model and the program's constants, in tenths of a second.  *)

MaxTime      == 40    \* the clocks are followed up to this reading
OpenTick     == 12    \* the wall clock's reading at the open time
StepBack     == 20    \* by how much an adjustment sets the wall clock back
MaxWallSteps == 1     \* how many such adjustments a run sees
NetDelay     == 2     \* how long a slow request takes

POST_INTERVAL   == 7
BACKOFF_SECONDS == 30
POST_MIN_GAP    == 8

\* what a request may take.  time.sleep(d) returns after d: it may return later,
\* which only widens the gaps between the steps that follow it
Durations == {0, NetDelay}

-----------------------------------------------------------------------------
(* The inputs of a run.                                                     *)

\* profile ids typed: "4665" and "x"
PidInputs == { <<52, 54, 54, 53>>, <<120>> }

\* selections typed: "0";  "1002 0";  "0 0";  "1001";  "a 9";  and a token made
\* of SUPERSCRIPT TWO
TokenInputs ==
    { << <<48>> >>, << <<49, 48, 48, 50>>, <<48>> >>,
      << <<48>>, <<48>> >>, << <<49, 48, 48, 49>> >>, << <<97>>, <<57>> >>,
      << <<178>> >> }

\* open times typed: the time of the model, and two strings strptime rejects
GoodOpenAt == "2025-9-16 16:00:00"
OpenAtInputs == { GoodOpenAt, "2025/9/16 16:00", "" }

StrptimeLenient(o) == [raised |-> FALSE, dt |-> OpenTick]

\* datetime.strptime(open_at, "%Y-%m-%d %H:%M:%S"); the wall clock reads
\* OpenTick at the one time of the model
Strptime(o) ==
    IF o = GoodOpenAt THEN [raised |-> FALSE, dt |-> OpenTick]
    ELSE [raised |-> TRUE, dt |-> 0]

-----------------------------------------------------------------------------
(* The state after construction, and what is common to the steps.           *)

NoResp == [status_code |-> 0]
NoReq  == [method |-> "none"]
NoCall == [fn |-> "none"]
NoRet  == [done |-> FALSE]

\* a response's marks: it carries the "too fast" phrase or status 429 or 503; it
\* is an authentication bounce
NoSignal == [limit |-> FALSE, bounce |-> FALSE]

\* the warm-up page, and the page without a pid if it was fetched
NoDisc == [done |-> FALSE, warm |-> <<>>, dpFetched |-> FALSE, dp |-> <<>>]

NoHist ==
    [exit |-> "",            \* how the process ended
     posted |-> FALSE,       \* a submission POST has been issued
     lastEnd |-> -1,         \* when the last submission attempt returned or raised
     fetched |-> <<>>,       \* the last two catalog fetches of course_info
     attempts |-> <<>>,      \* the attempts for the course at hand, in this pass
     waited |-> FALSE,       \* a pass found the window closed
     passes |-> 0,           \* passes that found it open: 0, 1, or 2 for more
     notice |-> FALSE,       \* the last course ended with the "not submitted" notice
     steps |-> 0,            \* adjustments of the wall clock so far
     signal |-> NoSignal,    \* what the last submission response carried
     disc |-> NoDisc,        \* the pages course_info fetched to find candidates
     bounded |-> TRUE]       \* the run is followed up to MaxTime only

ProgramInit ==
    /\ pc = "main"
    /\ pid = <<>>
    /\ rchk = NoResp
    /\ site = ""
    /\ cur = <<>>
    /\ queue = <<>>
    /\ status = 0
    /\ text = <<>>
    /\ used = ""
    /\ id_list = <<>>
    /\ n = 0
    /\ chosen = <<>>
    /\ open_at = ""
    /\ dt = 0
    /\ post_urls = <<>>
    /\ forms = <<>>
    /\ now = 0
    /\ last_post_ts = 0
    /\ di = 0
    /\ ui = 0
    /\ sent_ok = FALSE
    /\ req = NoReq
    /\ hist = NoHist

\* the clocks when the process starts: the monotonic clock counts from boot
MonoStarts == {0, POST_MIN_GAP}

\* the process starts before the open time on a machine just booted, or after it
Init ==
    /\ ProgramInit
    /\ mono \in MonoStarts
    /\ wall = IF mono = 0 THEN 0 ELSE OpenTick
    /\ call = NoCall
    /\ ret = NoRet

\* sys.exit(code), an uncaught exception ("crash"): the process is over
Exits(kind) ==
    /\ pc' = "exited"
    /\ hist' = [hist EXCEPT !.exit = kind]

\* the reading of a clock at time t: a run that is followed beyond MaxTime has
\* its clocks stand still there
Clock(t) == IF hist.bounded THEN t ELSE Min(t, MaxTime)

\* time passes by d on both clocks
Passes(d) ==
    /\ hist.bounded => mono + d <= MaxTime
    /\ mono' = Clock(mono + d)
    /\ wall' = Clock(wall + d)

-----------------------------------------------------------------------------
(* main, make_session and course_info.  Console output is not modelled, and *)
(* a GET that raises is not caught anywhere: the process ends.              *)

\* get_profile_id, then get_cookie_manual (the cookie decides only what the
\* server answers, which is open here)
GetProfileId ==
    /\ pc = "main"
    /\ \E p \in PidInputs :
         /\ pid' = p
         /\ IF IsDigit(p)
            THEN pc' = "make_session" /\ hist' = hist
            ELSE Exits("exit1")
    /\ UNCHANGED <<rchk, site, cur, queue, status, text, used, id_list, n, chosen>>
    /\ UNCHANGED <<loopVars, clockVars, fnVars>>

\* make_session: the GETs of the home page and of defaultPage, then the login
\* probe; a bounce raises RuntimeError, which main does not catch
MakeSession ==
    /\ pc = "make_session"
    /\ \/ /\ Exits("crash")                       \* one of the three GETs raises
          /\ rchk' = rchk
       \/ \E r \in ProbeResponses :
            /\ rchk' = r
            /\ IF is_login_bounce(r).value
               THEN Exits("crash")
               ELSE pc' = "course_info" /\ hist' = hist
    /\ UNCHANGED <<pid, site, cur, queue, status, text, used, id_list, n, chosen>>
    /\ UNCHANGED <<loopVars, clockVars, fnVars>>

AcceptedWhateverStatus(st, t) == Contains(t, ID_MARK) /\ ~Contains(Lower(t), HTML_MARK)

\* status == 200 and "id:" in text and "<html" not in text.lower()
Accepted(st, t) ==
    st = 200 /\ Contains(t, ID_MARK) /\ ~Contains(Lower(t), HTML_MARK)

\* the catalog fetch of id p under parameter name param, recorded with what the
\* response was: its status, and whether its decoded body holds "id:" and "<html"
\* in any letter case
Fetched(p, param, r, t) ==
    [pid |-> p, param |-> param, status |-> r.status_code,
     hasId |-> Contains(t, ID_MARK), hasHtml |-> Contains(Lower(t), HTML_MARK)]

\* the history keeps the last two fetches, the latest last
Remember(h, f) == IF Len(h) < 2 THEN Append(h, f) ELSE <<h[2], f>>

\* course_info: print, then the first call of _try_fetch_data
CourseInfo ==
    /\ pc = "course_info"
    /\ pc' = "fetch1"
    /\ site' = "first"
    /\ cur' = pid
    /\ rchk' = NoResp
    /\ UNCHANGED <<pid, queue, status, text, used, id_list, n, chosen, hist>>
    /\ UNCHANGED <<loopVars, clockVars, fnVars>>

WorkingPidKept(acc, cand, p) == p

\* lines 171-172: pid = cand when the fetch of cand is accepted
WorkingPid(acc, cand, p) == IF acc THEN cand ELSE p

\* where course_info goes on when _try_fetch_data has returned (st, t, u): the test
\* of line 161 after the first call, the test of line 171 in the for loop
Returned(st, t, u) ==
    /\ status' = st
    /\ text' = t
    /\ used' = u
    /\ IF site = "first"
       THEN /\ pc' = IF Accepted(st, t) THEN "final_check" ELSE "discover"
            /\ pid' = pid
       ELSE /\ pc' = IF Accepted(st, t) THEN "final_check" ELSE "for_cand"
            /\ pid' = WorkingPid(Accepted(st, t), cur, pid)

\* _try_fetch_data, the GET with electionProfile.id: it returns if the response is
\* accepted and goes on to the second GET if not
Fetch1 ==
    /\ pc = "fetch1"
    /\ \/ /\ Exits("crash")
          /\ UNCHANGED <<pid, status, text, used>>
       \/ \E r \in DataResponses :
            LET t1 == smart_read(r).text IN
            /\ hist' = [hist EXCEPT !.fetched =
                                Remember(@, Fetched(cur, "electionProfile.id", r, t1))]
            /\ IF Accepted(r.status_code, t1)
               THEN Returned(r.status_code, t1, "electionProfile.id")
               ELSE pc' = "fetch2" /\ UNCHANGED <<pid, status, text, used>>
    /\ UNCHANGED <<rchk, site, cur, queue, id_list, n, chosen>>
    /\ UNCHANGED <<loopVars, clockVars, fnVars>>

\* _try_fetch_data, the GET with profileId: whatever comes is returned
Fetch2 ==
    /\ pc = "fetch2"
    /\ \/ /\ Exits("crash")
          /\ UNCHANGED <<pid, status, text, used>>
       \/ \E r \in DataResponses :
            LET t2 == smart_read(r).text IN
            /\ hist' = [hist EXCEPT !.fetched =
                                Remember(@, Fetched(cur, "profileId", r, t2))]
            /\ Returned(r.status_code, t2, "profileId")
    /\ UNCHANGED <<rchk, site, cur, queue, id_list, n, chosen>>
    /\ UNCHANGED <<loopVars, clockVars, fnVars>>

\* lines 163-169: the warm-up page, the page without a pid if the first holds no
\* candidate, and the list the for loop walks
Discover ==
    /\ pc = "discover"
    /\ \/ /\ Exits("crash")
          /\ queue' = queue
       \/ \E warm \in Pages, dp \in Pages :
            LET c1 == ExtractProfileIds(warm)
                candidates == IF c1 = <<>> THEN ExtractProfileIds(dp) ELSE c1
            IN /\ queue' = <<pid>> \o candidates
               /\ pc' = "for_cand"
               /\ hist' = [hist EXCEPT !.disc =
                               [done |-> TRUE, warm |-> warm, dpFetched |-> c1 = <<>>,
                                dp |-> IF c1 = <<>> THEN dp ELSE <<>>]]
    /\ UNCHANGED <<pid, rchk, site, cur, status, text, used, id_list, n, chosen>>
    /\ UNCHANGED <<loopVars, clockVars, fnVars>>

\* for cand in ([pid] + candidates): the next candidate, or the end of the loop
ForCand ==
    /\ pc = "for_cand"
    /\ IF queue = <<>>
       THEN pc' = "final_check" /\ UNCHANGED <<site, cur, queue>>
       ELSE /\ pc' = "fetch1"
            /\ site' = "cand"
            /\ cur' = Head(queue)
            /\ queue' = Tail(queue)
    /\ UNCHANGED <<pid, rchk, status, text, used, id_list, n, chosen, hist>>
    /\ UNCHANGED <<loopVars, clockVars, fnVars>>

\* if not id_list
NoCourseIds(ids) == ids = <<>>

\* lines 175-200: the last test of the fetch, then the parsing and the listing
ParseCourses ==
    /\ pc = "final_check"
    /\ IF ~Accepted(status, text)
       THEN Exits("exit1") /\ UNCHANGED <<id_list, n>>
       ELSE LET c == ParseCatalog(text) IN
            /\ id_list' = c.id_list
            /\ n' = c.n
            /\ IF NoCourseIds(c.id_list)
               THEN Exits("exit1")
               ELSE pc' = "select" /\ hist' = hist
    /\ UNCHANGED <<pid, rchk, site, cur, queue, status, text, used, chosen>>
    /\ UNCHANGED <<loopVars, clockVars, fnVars>>

\* lines 203-225: the tokens typed and their mapping; int() raising is not caught.
\* course_info returns chosen, pid and used; its other locals are gone
Select ==
    /\ pc = "select"
    /\ \E tokens \in TokenInputs :
         LET m == MapSelections(tokens, id_list, n) IN
         /\ chosen' = m.chosen
         /\ IF m.raised THEN Exits("crash") /\ UNCHANGED <<site, cur, queue, status, text, id_list, n>>
            ELSE IF m.chosen = <<>> THEN Exits("exit0") /\ UNCHANGED <<site, cur, queue, status, text, id_list, n>>
            ELSE /\ pc' = "grab_courses"
                 /\ hist' = [hist EXCEPT !.fetched = <<>>, !.disc = NoDisc]
                 /\ site' = ""
                 /\ cur' = <<>>
                 /\ queue' = <<>>
                 /\ status' = 0
                 /\ text' = <<>>
                 /\ id_list' = <<>>
                 /\ n' = 0
    /\ UNCHANGED <<pid, rchk, used>>
    /\ UNCHANGED <<loopVars, clockVars, fnVars>>

-----------------------------------------------------------------------------
(* grab_courses.                                                            *)

\* ":true:0" and "true"
OPERATOR_SUFFIX == <<58, 116, 114, 117, 101, 58, 48>>
OPTYPE_TRUE == <<116, 114, 117, 101>>

FormWithoutSuffix(cid) == [optype |-> OPTYPE_TRUE, operator0 |-> cid, lesson0 |-> cid]

\* {"optype": "true", "operator0": f"{cid}:true:0", "lesson0": cid}
Form(cid) ==
    [optype |-> OPTYPE_TRUE, operator0 |-> cid \o OPERATOR_SUFFIX, lesson0 |-> cid]

FormsOfDistinct(lesson_ids) ==
    [i \in 1..Len(DedupFrom(lesson_ids, 1, <<>>)) |->
        Form(DedupFrom(lesson_ids, 1, <<>>)[i])]

\* [{...} for cid in lesson_ids]
Forms(lesson_ids) == [i \in 1..Len(lesson_ids) |-> Form(lesson_ids[i])]

PostUrlsElectionFirst(u, p) ==
    << [param |-> "electionProfile.id", pid |-> p], [param |-> "profileId", pid |-> p] >>

\* lines 239-243: batchOperator.action with the parameter name of the catalog
\* fetch first; a URL is kept as its parameter name and the pid it carries
PostUrls(u, p) ==
    IF u = "profileId"
    THEN << [param |-> "profileId", pid |-> p], [param |-> "electionProfile.id", pid |-> p] >>
    ELSE << [param |-> "electionProfile.id", pid |-> p], [param |-> "profileId", pid |-> p] >>

\* lines 230-249: the open time typed and parsed, the URLs, the forms
GrabCourses ==
    /\ pc = "grab_courses"
    /\ \E o \in OpenAtInputs :
         LET p == Strptime(o) IN
         /\ open_at' = o
         /\ IF p.raised
            THEN Exits("exit1") /\ UNCHANGED <<dt, post_urls, forms>>
            ELSE /\ dt' = p.dt
                 /\ post_urls' = PostUrls(used, pid)
                 /\ forms' = Forms(chosen)
                 /\ pc' = "pass"
                 /\ hist' = hist
    /\ last_post_ts' = 0
    /\ UNCHANGED <<now, di, ui, sent_ok, req>>
    /\ UNCHANGED <<setupVars, clockVars, fnVars>>

WindowOpenAlways(t, d) == TRUE

\* now >= dt
WindowOpen(t, d) == t >= d

\* lines 253-256 and 291-293: the clock is read; the pass starts with the first
\* form, or the waiting message is printed
PassStart ==
    /\ pc = "pass"
    /\ now' = wall
    /\ IF WindowOpen(wall, dt)
       THEN /\ pc' = "gate"
            /\ di' = 1
            /\ ui' = 1
            /\ sent_ok' = FALSE
            /\ hist' = [hist EXCEPT !.passes = Min(@ + 1, 2)]
       ELSE /\ pc' = "sleep"
            /\ hist' = [hist EXCEPT !.waited = TRUE]
            /\ UNCHANGED <<di, ui, sent_ok>>
    /\ UNCHANGED <<open_at, dt, post_urls, forms, last_post_ts, req>>
    /\ UNCHANGED <<setupVars, clockVars, fnVars>>

\* gap = time.monotonic() - last_post_ts; what is slept if gap < POST_MIN_GAP
GateSleep(gap) == IF gap < POST_MIN_GAP THEN POST_MIN_GAP - gap ELSE 0

\* lines 259-266: the gate, then session.post is called
Gate ==
    /\ pc = "gate"
    /\ LET need == GateSleep(mono - last_post_ts) IN
       Passes(need)
    /\ req' = [method |-> "POST", url |-> post_urls[ui], data |-> forms[di]]
    /\ pc' = "inflight"
    /\ hist' = [hist EXCEPT !.posted = TRUE,
                            !.attempts = IF ui = 1 THEN <<>> ELSE @]
    /\ UNCHANGED <<open_at, dt, post_urls, forms, now, last_post_ts, di, ui, sent_ok>>
    /\ UNCHANGED <<setupVars, fnVars>>

NextUrlOrStop ==
    IF ui < Len(post_urls)
    THEN pc' = "gate" /\ ui' = ui + 1
    ELSE pc' = "exited" /\ ui' = ui

\* "continue" of the loop over post_urls: the next URL, or the end of that loop
NextUrl ==
    IF ui < Len(post_urls)
    THEN pc' = "gate" /\ ui' = ui + 1
    ELSE pc' = "course_end" /\ ui' = ui

RaisedEndsProcess == "crash"

\* what "except Exception" of line 285 does with a session.post that raised
RaisedGoesOn == "continue"

RateLimitedNever(r, body) == FALSE

\* the "too fast" phrase in the body, or status 429 or 503
RateLimited(r, body) ==
    Contains(body, TOO_FAST_PHRASE) \/ r.status_code \in {429, 503}

\* the marks of response r with decoded body b
Signal(r, b, bounced) ==
    [limit |-> Contains(b, TOO_FAST_PHRASE) \/ r.status_code \in {429, 503},
     bounce |-> bounced]

\* lines 266-287: session.post returns a response or raises after d
PostReturns ==
    /\ pc = "inflight"
    /\ req' = NoReq
    /\ \E d \in Durations :
         \/ /\ Passes(d)                                   \* it raises
            /\ last_post_ts' = last_post_ts
            /\ sent_ok' = sent_ok
            /\ IF RaisedGoesOn = "continue"
               THEN /\ NextUrl
                    /\ hist' = [hist EXCEPT !.lastEnd = Clock(mono + d),
                                    !.signal = NoSignal,
                                    !.attempts = Append(@, [param |-> req.url.param,
                                                            outcome |-> "raised"])]
               ELSE Exits("crash") /\ ui' = ui
         \/ \E r \in PostResponses :
              /\ last_post_ts' = Clock(mono + d)
              /\ IF is_login_bounce(r).value
                 THEN /\ Passes(d)
                      /\ sent_ok' = sent_ok
                      /\ NextUrl
                      /\ hist' = [hist EXCEPT !.lastEnd = Clock(mono + d),
                                      !.signal = Signal(r, r.text, TRUE),
                                      !.attempts = Append(@, [param |-> req.url.param,
                                                              outcome |-> "bounce"])]
                 ELSE LET body == smart_read(r).text IN
                      /\ sent_ok' = TRUE
                      /\ pc' = "course_end"
                      /\ ui' = ui
                      /\ IF RateLimited(r, body)
                         THEN Passes(d + BACKOFF_SECONDS)
                         ELSE Passes(d)
                      /\ hist' = [hist EXCEPT !.lastEnd = Clock(mono + d),
                                      !.signal = Signal(r, body, FALSE),
                                      !.attempts = Append(@,
                                          [param |-> req.url.param,
                                           outcome |-> IF RateLimited(r, body)
                                                       THEN "limited" ELSE "answered"])]
    /\ UNCHANGED <<open_at, dt, post_urls, forms, now, di>>
    /\ UNCHANGED <<setupVars, fnVars>>

NoticeAlways(s) == TRUE

\* if not sent_ok
NoticeDue(s) == ~s

\* lines 289-290 and the next round of "for data in forms"
CourseEnd ==
    /\ pc = "course_end"
    /\ hist' = [hist EXCEPT !.notice = NoticeDue(sent_ok)]
    /\ IF di < Len(forms)
       THEN /\ pc' = "gate"
            /\ di' = di + 1
            /\ ui' = 1
            /\ sent_ok' = FALSE
       ELSE /\ pc' = "sleep"
            /\ UNCHANGED <<di, ui, sent_ok>>
    /\ UNCHANGED <<open_at, dt, post_urls, forms, now, last_post_ts, req>>
    /\ UNCHANGED <<setupVars, clockVars, fnVars>>

\* line 296: time.sleep(POST_INTERVAL)
PassSleep ==
    /\ pc = "sleep"
    /\ Passes(POST_INTERVAL)
    /\ pc' = "pass"
    /\ hist' = [hist EXCEPT !.attempts = <<>>, !.notice = FALSE]
    /\ UNCHANGED <<open_at, dt, post_urls, forms, now, last_post_ts, di, ui, sent_ok, req>>
    /\ UNCHANGED <<setupVars, fnVars>>

\* the machine's wall clock is set back.  The program reads it at the start of a
\* pass only, so an adjustment during the sleep before it stands for any other
AdjustWallClock ==
    /\ pc = "sleep"
    /\ hist.steps < MaxWallSteps
    /\ wall' = wall - StepBack
    /\ hist' = [hist EXCEPT !.steps = @ + 1]
    /\ UNCHANGED <<pc, mono>>
    /\ UNCHANGED <<setupVars, loopVars, fnVars>>

\* KeyboardInterrupt, which "except Exception" does not catch: lines 306-310
LoopPcs == {"pass", "gate", "inflight", "course_end", "sleep"}

Interrupt ==
    /\ pc \in LoopPcs \cup {"make_session", "course_info", "fetch1", "fetch2",
                            "discover", "select", "grab_courses"}
    /\ pc' = "exited"
    /\ hist' = [hist EXCEPT !.exit = "interrupt", !.lastEnd = -1, !.attempts = <<>>,
                            !.notice = FALSE, !.signal = NoSignal, !.disc = NoDisc]
    /\ now' = 0                       \* the frame of grab_courses is unwound
    /\ last_post_ts' = 0
    /\ di' = 0
    /\ ui' = 0
    /\ sent_ok' = FALSE
    /\ req' = NoReq
    /\ UNCHANGED <<open_at, dt, post_urls, forms>>
    /\ UNCHANGED <<setupVars, clockVars, fnVars>>

Next ==
    \/ GetProfileId
    \/ MakeSession
    \/ CourseInfo
    \/ Fetch1
    \/ Fetch2
    \/ Discover
    \/ ForCand
    \/ ParseCourses
    \/ Select
    \/ GrabCourses
    \/ PassStart
    \/ Gate
    \/ PostReturns
    \/ CourseEnd
    \/ PassSleep
    \/ AdjustWallClock
    \/ Interrupt

Spec == Init /\ [][Next]_vars

\* The loop of grab_courses followed without a bound on time.  It starts where
\* main has typed pid 4665, fetched the catalog under either parameter name,
\* chosen one or two courses and parsed the open time.  No interrupt comes and
\* the wall clock is not set back.  The process is sequential and takes its next
\* step: a sleep returns, and session.post returns or raises within its timeout.
LiveChosen == { << <<49, 48, 48, 49>> >>, << <<49, 48, 48, 50>>, <<49, 48, 48, 49>> >> }

LiveInit ==
    /\ pc = "pass"
    /\ pid = <<52, 54, 54, 53>>
    /\ used \in {"electionProfile.id", "profileId"}
    /\ chosen \in LiveChosen
    /\ rchk = NoResp
    /\ site = ""
    /\ cur = <<>>
    /\ queue = <<>>
    /\ status = 0
    /\ text = <<>>
    /\ id_list = <<>>
    /\ n = 0
    /\ open_at = GoodOpenAt
    /\ dt = Strptime(GoodOpenAt).dt
    /\ post_urls = PostUrls(used, pid)
    /\ forms = Forms(chosen)
    /\ now = 0
    /\ last_post_ts = 0
    /\ di = 0
    /\ ui = 0
    /\ sent_ok = FALSE
    /\ req = NoReq
    /\ hist = [NoHist EXCEPT !.bounded = FALSE]
    /\ mono \in MonoStarts
    /\ wall = IF mono = 0 THEN 0 ELSE OpenTick
    /\ call = NoCall
    /\ ret = NoRet

LiveNext ==
    \/ PassStart
    \/ Gate
    \/ PostReturns
    \/ CourseEnd
    \/ PassSleep

SpecLive == LiveInit /\ [][LiveNext]_vars /\ WF_vars(LiveNext)

-----------------------------------------------------------------------------
(* Single calls of is_login_bounce, smart_read, the catalog parser and the  *)
(* selection mapping, on arguments drawn from bounded sets.  The program    *)
(* itself is at rest in these specifications.                               *)

MaxPad        == 1    \* characters of padding around a marker
MaxPayloadLen == 3    \* bytes of a free payload
MaxRecords    == 2    \* records of a catalog body
MaxTokens     == 3    \* tokens of a selection

AtRest == ProgramInit /\ mono = 0 /\ wall = 0 /\ ret = NoRet

\* URLs by kind: "authserver", "AuthServer", "AUTHSERVER", "authserve", a page of
\* the site; bodies by kind: the authentication phrase, the phrase less its last
\* character, "authserver", "ok"
UrlOfKind(k) ==
    CASE k = "marker"   -> AUTH_MARKER
      [] k = "mixed"    -> <<65, 117, 116, 104, 83, 101, 114, 118, 101, 114>>
      [] k = "upper"    -> <<65, 85, 84, 72, 83, 69, 82, 86, 69, 82>>
      [] k = "nearmiss" -> SubSeq(AUTH_MARKER, 1, 9)
      [] OTHER          -> SITE_URL

TextOfKind(k) ==
    CASE k = "phrase"   -> AUTH_PHRASE
      [] k = "nearmiss" -> SubSeq(AUTH_PHRASE, 1, 5)
      [] k = "marker"   -> AUTH_MARKER
      [] OTHER          -> OK_BODY

UrlKinds  == {"marker", "mixed", "upper", "nearmiss", "plain", "unreadable"}
TextKinds == {"phrase", "nearmiss", "marker", "plain", "unreadable"}
Pads == SeqsUpTo({47}, MaxPad)

BounceCalls ==
    { [fn |-> "is_login_bounce", urlKind |-> uk, textKind |-> tk,
       resp |-> [urlOk |-> uk # "unreadable", url |-> p1 \o UrlOfKind(uk) \o p2,
                 textOk |-> tk # "unreadable", text |-> p2 \o TextOfKind(tk) \o p1]] :
      uk \in UrlKinds, tk \in TextKinds, p1 \in Pads, p2 \in Pads }

InitBounce == AtRest /\ call \in BounceCalls

CallIsLoginBounce ==
    /\ call.fn = "is_login_bounce"
    /\ ~ret.done
    /\ ret' = [done |-> TRUE] @@ is_login_bounce(call.resp)
    /\ UNCHANGED <<pc, setupVars, loopVars, clockVars, hist, call>>

SpecBounce == InitBounce /\ [][CallIsLoginBounce]_vars

\* payloads: every sequence of up to MaxPayloadLen bytes over the two magic pairs,
\* "A" and a UTF-8 lead byte; the two valid streams, each also cut short; a
\* three-byte character followed by "A".  Hints: None, "", an unknown codec,
\* and three known ones
ByteAlphabet == {31, 139, 120, 156, 65, 231}
Payloads ==
    SeqsUpTo(ByteAlphabet, MaxPayloadLen)
    \cup { GzipOfA, ZlibOfA, SubSeq(GzipOfA, 1, 10), SubSeq(ZlibOfA, 1, 5),
           <<231, 187, 159, 65>> }
EncodingHints == { NONE, "", "bogus", "utf-8", "ISO-8859-1", "GBK" }

ReadCalls ==
    { [fn |-> "smart_read",
       resp |-> [content |-> c, encoding |-> e, apparent_encoding |-> a]] :
      c \in Payloads, e \in EncodingHints, a \in EncodingHints }

InitRead == AtRest /\ call \in ReadCalls

CallSmartRead ==
    /\ call.fn = "smart_read"
    /\ ~ret.done
    /\ ret' = [done |-> TRUE] @@ smart_read(call.resp)
    /\ UNCHANGED <<pc, setupVars, loopVars, clockVars, hist, call>>

SpecRead == InitRead /\ [][CallSmartRead]_vars

\* catalog bodies: up to MaxRecords records, each an id of "1001", "1002", "7" and
\* a name of "Math", "Physics", alone or between "...".  Layouts: the name after
\* "code:" in every record; the name before it in every record; the name before
\* it and the second record without a name; the same and the second record
\* without an id
IdPool   == { <<49, 48, 48, 49>>, <<49, 48, 48, 50>>, <<55>> }
NamePool == { <<77, 97, 116, 104>>, <<80, 104, 121, 115, 105, 99, 115>> }
Layouts  == {"code_first", "name_first", "second_nameless", "second_idless"}
DOTS == <<46, 46, 46>>

\* record i: "id:<id>,code:<c> name:'<name>'," or "id:<id>,name:'<name>',code:<c>,"
\* with <c> the letter x, y, z, ... of the record; "id:<id>,code:<c>," without a
\* name and "name:'<name>',code:<c>," without an id
RecordText(layout, rec, i) ==
    IF layout = "code_first"
    THEN ID_MARK \o rec[1] \o <<44>> \o CODE_MARK \o <<119 + i, 32>>
         \o NAME_MARK \o rec[2] \o <<39, 44>>
    ELSE IF layout = "second_nameless" /\ i = 2
    THEN ID_MARK \o rec[1] \o <<44>> \o CODE_MARK \o <<119 + i, 44>>
    ELSE IF layout = "second_idless" /\ i = 2
    THEN NAME_MARK \o rec[2] \o <<39, 44>> \o CODE_MARK \o <<119 + i, 44>>
    ELSE ID_MARK \o rec[1] \o <<44>> \o NAME_MARK \o rec[2] \o <<39, 44>>
         \o CODE_MARK \o <<119 + i, 44>>

RECURSIVE RecordsText(_, _, _)
RecordsText(layout, recs, i) ==
    IF i > Len(recs) THEN <<>>
    ELSE RecordText(layout, recs[i], i) \o RecordsText(layout, recs, i + 1)

BodyOf(layout, recs, wrapped) ==
    IF wrapped THEN DOTS \o RecordsText(layout, recs, 1) \o DOTS
    ELSE RecordsText(layout, recs, 1)

ParseCalls ==
    { [fn |-> "parse", layout |-> l, recs |-> r, wrapped |-> w, text |-> BodyOf(l, r, w)] :
      l \in Layouts, r \in SeqsUpTo(IdPool \X NamePool, MaxRecords), w \in BOOLEAN }

InitParse == AtRest /\ call \in ParseCalls

CallParse ==
    /\ call.fn = "parse"
    /\ ~ret.done
    /\ ret' = [done |-> TRUE, fatal |-> NoCourseIds(ParseCatalog(call.text).id_list)]
                  @@ ParseCatalog(call.text)
    /\ UNCHANGED <<pc, setupVars, loopVars, clockVars, hist, call>>

SpecParse == InitParse /\ [][CallParse]_vars

\* selections: up to MaxTokens tokens of "0", "1", "9", "01", "1002", "7", "a",
\* "1a", SUPERSCRIPT TWO, ARABIC-INDIC DIGIT ONE; id lists "1001 1002 7" and
\* "1 1002 0", of which the first cnt are listed with a name
TokenPool ==
    { <<48>>, <<49>>, <<57>>, <<48, 49>>, <<49, 48, 48, 50>>, <<55>>, <<97>>,
      <<49, 97>>, <<178>>, <<1633>> }
IdLists ==
    { << <<49, 48, 48, 49>>, <<49, 48, 48, 50>>, <<55>> >>,
      << <<49>>, <<49, 48, 48, 50>>, <<48>> >> }

SelectCalls ==
    { [fn |-> "select", tokens |-> ts, ids |-> ids, cnt |-> c] :
      ts \in SeqsUpTo(TokenPool, MaxTokens), ids \in IdLists, c \in 0..3 }

InitSelect == AtRest /\ call \in SelectCalls

CallSelect ==
    /\ call.fn = "select"
    /\ ~ret.done
    /\ ret' = [done |-> TRUE] @@ MapSelections(call.tokens, call.ids, call.cnt)
    /\ UNCHANGED <<pc, setupVars, loopVars, clockVars, hist, call>>

SpecSelect == InitSelect /\ [][CallSelect]_vars

-----------------------------------------------------------------------------
(* The claims.                                                              *)

\* C1: a pass whose clock reading is before the open time issues no submission:
\* the process is inside a pass (at the gate, with a POST in flight, or ending a
\* course) only when the reading now taken at the start of that pass is >= dt, and
\* a POST is in flight only then.
C1_NoPostBeforeOpen ==
    /\ pc \in {"gate", "inflight", "course_end"} => now >= dt
    /\ req.method = "POST" => (pc = "inflight" /\ now >= dt)

\* a pass has found the window closed and slept, and no POST has been issued
C1_Witness ==
    pc = "pass" /\ now < dt /\ hist.waited /\ ~hist.posted /\ mono >= POST_INTERVAL

\* C2: every POST is issued at least POST_MIN_GAP after the attempt before it
\* returned or raised.
C2_GapAfterEveryAttempt ==
    (pc = "inflight" /\ hist.lastEnd >= 0) => mono - hist.lastEnd >= POST_MIN_GAP

\* C3: no step takes the process out of the submission loop but the interrupt.
C3_LoopEndsOnlyByInterrupt ==
    [][(pc \in LoopPcs /\ pc' \notin LoopPcs) => hist'.exit = "interrupt"]_vars

\* a course has ended with the notice after one URL bounced and the other raised,
\* and the loop has gone on to the sleep between passes
C3_Witness ==
    /\ pc = "sleep"
    /\ hist.notice
    /\ Len(hist.attempts) = 2
    /\ {hist.attempts[1].outcome, hist.attempts[2].outcome} = {"bounce", "raised"}

\* the process is over and has issued no POST
EndedWithoutPost == pc = "exited" /\ ~hist.posted

\* what the claims call an accepted catalog fetch: status 200, "id:" in the body
\* and no "<html" (in any letter case) in it
FetchOk(f) == f.status = 200 /\ f.hasId /\ ~f.hasHtml

\* C4: once the step that detects it is passed, each fatal condition has ended the
\* process, and no POST was issued: a profile id that is not numeric, a login
\* probe that bounced, a resolution whose last fetch was not accepted, an accepted
\* body without a course id, an empty selection, an open time that does not parse.
C4_FatalBeforeAnyPost ==
    /\ (pc # "main" /\ ~(pid # <<>> /\ \A i \in 1..Len(pid) : IsDigitChar(pid[i])))
          => EndedWithoutPost
    /\ (rchk # NoResp /\ (Contains(rchk.text, AUTH_PHRASE)
                           \/ Contains(Lower(rchk.url), AUTH_MARKER)))
          => EndedWithoutPost
    /\ (/\ pc \notin {"main", "make_session", "course_info", "fetch1", "fetch2",
                      "discover", "for_cand", "final_check"}
        /\ hist.fetched # <<>>
        /\ ~FetchOk(hist.fetched[Len(hist.fetched)]))
          => EndedWithoutPost
    /\ (pc = "select" => id_list # <<>>)
    /\ (pc \in LoopPcs \cup {"grab_courses"} => chosen # <<>>)
    /\ (pc \in LoopPcs => open_at = GoodOpenAt)
    /\ (hist.posted => hist.exit \in {"", "interrupt"})

\* a run that passed every earlier test has ended on an open time that does not
\* parse
C4_Witness ==
    /\ pc = "exited"
    /\ hist.exit = "exit1"
    /\ chosen # <<>>
    /\ open_at \notin {"", GoodOpenAt}
    /\ ~hist.posted

\* the tokens the claim calls numeric: made of decimal digits only (they have a
\* value); SUPERSCRIPT TWO is no such token
ClaimedNumeric(t) == t # <<>> /\ \A i \in 1..Len(t) : t[i] \in 48..57 \cup 1632..1641

\* what the claim maps one token to: a list of one id, or nothing
ClaimedChoice(t, ids, cnt) ==
    IF ~ClaimedNumeric(t) THEN <<>>
    ELSE IF DecimalNumber(t, Len(t)) < cnt THEN <<ids[DecimalNumber(t, Len(t)) + 1]>>
    ELSE IF \E k \in 1..Len(ids) : ids[k] = t THEN <<t>>
    ELSE <<>>

RECURSIVE ClaimedChosen(_, _, _, _)
ClaimedChosen(tokens, i, ids, cnt) ==
    IF i > Len(tokens) THEN <<>>
    ELSE ClaimedChoice(tokens[i], ids, cnt) \o ClaimedChosen(tokens, i + 1, ids, cnt)

\* C5: for every token list the mapping returns the chosen list the claim describes:
\* a token that is not numeric is skipped, a valid position gives the id at that
\* position, else a known id gives itself, else the token is skipped; one element
\* per accepted token, in token order.
C5_SelectionAsClaimed ==
    (ret.done /\ call.fn = "select")
        => (~ret.raised /\ ret.chosen = ClaimedChosen(call.tokens, 1, call.ids, call.cnt))

\* the entries the claim expects of k records: (i, id of record i, name of record i)
ExpectedEntries(recs) == [i \in 1..Len(recs) |-> <<i - 1, recs[i][1], recs[i][2]>>]

\* C6 as stated: a body of k records "id:<digits>,code:<x> name:'<name>'," parses
\* to the k entries (i, id of record i, name of record i).
C6_CodeFirstGivesEntries ==
    (ret.done /\ call.fn = "parse" /\ call.layout = "code_first")
        => ret.entries = ExpectedEntries(call.recs)

\* C6 as amended: a body of k records with the name before the "code:" delimiter
\* parses to the k entries; a body of k records in the layout of the spec's example
\* ("code:" before the name) gives the k ids, no name, and so no entry.
C6_NameFirstGivesEntries ==
    /\ (ret.done /\ call.fn = "parse" /\ call.layout = "name_first")
          => (ret.n = Len(call.recs) /\ ret.entries = ExpectedEntries(call.recs))
    /\ (ret.done /\ call.fn = "parse" /\ call.layout = "code_first")
          => /\ ret.id_list = [i \in 1..Len(call.recs) |-> call.recs[i][1]]
             /\ ret.name_list = <<>>
             /\ ret.entries = <<>>

\* the body of the spec's example, "...id:1001,code:x name:'Math',id:1002,code:y
\* name:'Physics',...", has been parsed: two ids and no entry
C6_Witness ==
    /\ ret.done
    /\ call.fn = "parse"
    /\ call.layout = "code_first"
    /\ call.wrapped
    /\ call.recs = << <<<<49, 48, 48, 49>>, <<77, 97, 116, 104>>>>, <<<<49, 48, 48, 50>>, <<80, 104, 121, 115, 105, 99, 115>>>> >>
    /\ Len(ret.id_list) = 2
    /\ ret.entries = <<>>

\* C7: is_login_bounce returns true when the body holds the authentication phrase
\* or the URL holds "authserver" in any letter case, false when neither does, an
\* unreadable URL or body counting as holding nothing; it never raises.
C7_BounceDetected ==
    (ret.done /\ call.fn = "is_login_bounce")
        => /\ ~ret.raised
           /\ ret.value = (call.textKind = "phrase"
                           \/ call.urlKind \in {"marker", "mixed", "upper"})

\* the URL is that of the authentication service in mixed case, the body cannot
\* be read, and the call has answered true
C7_Witness ==
    /\ ret.done
    /\ call.fn = "is_login_bounce"
    /\ call.urlKind = "mixed"
    /\ call.textKind = "unreadable"
    /\ ret.value

\* the payload starts as a gzip or zlib stream and is not one
DecompressionFails(b) ==
    /\ Len(b) >= 2
    /\ (b[1] = 31 /\ b[2] = 139) \/ (b[1] = 120 /\ b[2] \in {1, 94, 156, 218})
    /\ b \notin {GzipOfA, ZlibOfA}

\* C8: smart_read never raises and returns a text with the name of an encoding,
\* which is not empty; when decompression fails the text is the decoding of the
\* original bytes.
C8_SmartReadTotal ==
    (ret.done /\ call.fn = "smart_read")
        => /\ ~ret.raised
           /\ ret.enc \notin {NONE, ""}
           /\ DOMAIN ret.text = 1..Len(ret.text)
           /\ \A i \in 1..Len(ret.text) : ret.text[i] \in Nat
           /\ DecompressionFails(call.resp.content)
                 => ret.text = Decode(ret.enc, call.resp.content).text

\* a payload with the gzip magic that is no gzip stream, without a usable hint,
\* has been decoded as UTF-8
C8_Witness ==
    /\ ret.done
    /\ call.fn = "smart_read"
    /\ call.resp.content = <<31, 139, 65>>
    /\ call.resp.encoding = NONE
    /\ call.resp.apparent_encoding = "bogus"
    /\ ret.enc = "utf-8"
    /\ ret.text = <<31, 65>>

\* the form the claim gives for course id c, ":true:0" written out
ClaimedForm(c) ==
    [optype |-> <<116, 114, 117, 101>>,
     operator0 |-> c \o <<58, 116, 114, 117, 101, 58, 48>>,
     lesson0 |-> c]

\* C9: in every pass and for both URLs the form posted for the course at hand is
\* {optype: "true", operator0: "<c>:true:0", lesson0: "<c>"}, c being its id, and
\* the forms the loop walks stay those of the chosen ids.
C9_FormOfCourse ==
    /\ req.method = "POST" => req.data = ClaimedForm(chosen[di])
    /\ pc \in LoopPcs => forms = [i \in 1..Len(chosen) |-> ClaimedForm(chosen[i])]

\* the second course's form is in flight to the fallback URL in a later pass
C9_Witness ==
    /\ pc = "inflight"
    /\ hist.passes = 2
    /\ di = 2
    /\ ui = 2
    /\ req.data.operator0 = <<49, 48, 48, 49, 58, 116, 114, 117, 101, 58, 48>>

\* C10: when resolution has succeeded, the last catalog fetch was made with the pid
\* and the parameter name that are returned and was accepted; and a fetch with
\* profileId follows a fetch with electionProfile.id of the same id that was not
\* accepted.
C10_ReturnedPairWasAccepted ==
    /\ pc = "select"
          => /\ hist.fetched # <<>>
             /\ LET f == hist.fetched[Len(hist.fetched)] IN
                f.pid = pid /\ f.param = used /\ FetchOk(f)
    /\ pc = "fetch2"
          => /\ hist.fetched # <<>>
             /\ LET f == hist.fetched[Len(hist.fetched)] IN
                f.pid = cur /\ f.param = "electionProfile.id" /\ ~FetchOk(f)
    /\ (hist.fetched # <<>> /\ hist.fetched[Len(hist.fetched)].param = "profileId")
          => /\ Len(hist.fetched) = 2
             /\ hist.fetched[1].pid = hist.fetched[2].pid
             /\ hist.fetched[1].param = "electionProfile.id"
             /\ ~FetchOk(hist.fetched[1])

\* resolution has succeeded on a discovered id under the second parameter name
C10_Witness ==
    /\ pc = "select"
    /\ pid = <<55, 55>>
    /\ used = "profileId"

\* the parameter name that is not u
OtherName(u) == IF u = "profileId" THEN "electionProfile.id" ELSE "profileId"

\* an attempt that bounced or raised
Failed(a) == a.outcome \in {"bounce", "raised"}

\* C11: the first POST for a course carries the parameter name of the catalog
\* fetch; the POST with the other name follows one attempt with the first name that
\* bounced or raised; an attempt that got an answer that is no bounce is the last
\* one for its course in that pass.
C11_PreferredNameFirst ==
    /\ pc = "inflight" => ui \in {1, 2}
    /\ (pc = "inflight" /\ ui = 1)
          => (req.url.param = used /\ hist.attempts = <<>>)
    /\ (pc = "inflight" /\ ui = 2)
          => /\ req.url.param = OtherName(used)
             /\ Len(hist.attempts) = 1
             /\ hist.attempts[1].param = used
             /\ Failed(hist.attempts[1])
    /\ \A i \in 1..Len(hist.attempts) :
          ~Failed(hist.attempts[i])
             => /\ i = Len(hist.attempts)
                /\ pc \in {"course_end", "gate", "sleep"}
                /\ pc = "gate" => ui = 1

\* the catalog came under profileId, the POST with profileId raised, and the POST
\* with electionProfile.id is in flight
C11_Witness ==
    /\ pc = "inflight"
    /\ ui = 2
    /\ used = "profileId"
    /\ req.url.param = "electionProfile.id"
    /\ hist.attempts = << [param |-> "profileId", outcome |-> "raised"] >>

\* C12: after an attempt that raised, the last-submission instant is the time that
\* attempt ended.
C12_RaisedAttemptIsPaced ==
    (pc \in LoopPcs /\ hist.attempts # <<>>
       /\ hist.attempts[Len(hist.attempts)].outcome = "raised")
        => last_post_ts = hist.lastEnd

\* C13 as stated: a POST is issued at least BACKOFF_SECONDS after the last response
\* if that response carried the "too fast" phrase or status 429 or 503.
C13_BackoffAfterEverySignal ==
    (pc = "inflight" /\ hist.signal.limit)
        => mono - hist.lastEnd >= BACKOFF_SECONDS

\* C13 as amended: so it is after a response that is no authentication bounce, and
\* the POST is the first one of the next course; after a bounce that carries such a
\* status the POST that follows (to the fallback URL, or for the next course) is
\* gated by POST_MIN_GAP only.
C13_BackoffAfterAnsweredSignal ==
    /\ (pc = "inflight" /\ hist.signal.limit /\ ~hist.signal.bounce)
          => (mono - hist.lastEnd >= BACKOFF_SECONDS /\ ui = 1)
    /\ (pc = "inflight" /\ hist.signal.limit /\ hist.signal.bounce)
          => mono - hist.lastEnd >= POST_MIN_GAP

\* the first course was answered "too fast", and the POST for the second course is
\* in flight
C13_Witness ==
    /\ pc = "inflight"
    /\ di = 2
    /\ hist.signal = [limit |-> TRUE, bounce |-> FALSE]
    /\ mono - hist.lastEnd >= BACKOFF_SECONDS

\* C14 as stated: the forms of a pass are those of the distinct chosen ids, in the
\* order of their first selection.
C14_DuplicatesCollapse ==
    pc \in LoopPcs
        => forms = [i \in 1..Len(DedupFrom(chosen, 1, <<>>)) |->
                       ClaimedForm(DedupFrom(chosen, 1, <<>>)[i])]

\* C14 as amended: there is one form per element of the chosen list, in selection
\* order, duplicates included, and a pass posts the form of the element it is at.
C14_OneFormPerSelection ==
    /\ pc \in LoopPcs
          => /\ Len(forms) = Len(chosen)
             /\ \A i \in 1..Len(forms) : forms[i].lesson0 = chosen[i]
    /\ pc \in {"gate", "inflight", "course_end"} => di \in 1..Len(forms)
    /\ req.method = "POST" => req.data = forms[di]

\* a course selected twice is being submitted for the second time in one pass
C14_Witness ==
    /\ pc = "inflight"
    /\ di = 2
    /\ chosen[1] = chosen[2]
    /\ req.data = forms[1]

\* C15: when the loop over the URLs of a course is over, the course is marked as
\* sent exactly if its last attempt got an answer that is no bounce, and is not
\* exactly if both attempts bounced or raised; the notice is printed exactly then,
\* and the pass goes on.
C15_SentIffAnswered ==
    /\ pc = "course_end"
          => /\ sent_ok <=> (hist.attempts # <<>>
                             /\ ~Failed(hist.attempts[Len(hist.attempts)]))
             /\ ~sent_ok <=> (Len(hist.attempts) = 2
                              /\ \A i \in 1..2 : Failed(hist.attempts[i]))
    /\ (pc = "sleep" \/ (pc = "gate" /\ ui = 1 /\ di > 1))
          => (hist.notice <=> (Len(hist.attempts) = 2
                               /\ \A i \in 1..2 : Failed(hist.attempts[i])))

\* the first course got the notice and the pass is at the gate for the second
C15_Witness ==
    /\ pc = "gate"
    /\ di = 2
    /\ ui = 1
    /\ hist.notice
    /\ ~sent_ok

\* C16: a pass starts with the first course, goes from each course to the next one
\* after at least one POST for it, and ends after the last one; the next pass
\* starts after the sleep; and for every chosen course a POST is in flight again
\* and again.
C16_EveryCourseAgainAndAgain ==
    /\ [][(pc = "pass" /\ pc' = "gate") => (di' = 1 /\ ui' = 1)]_vars
    /\ [](pc = "course_end" => hist.attempts # <<>>)
    /\ [][pc = "course_end"
            => IF di < Len(chosen) THEN pc' = "gate" /\ di' = di + 1 /\ ui' = 1
               ELSE pc' = "sleep"]_vars
    /\ [][pc = "sleep" => pc' = "pass"]_vars
    /\ [](pc = "inflight" => req.data.lesson0 = chosen[di])
    /\ \A i \in 1..2 : []<>(i > Len(chosen) \/ (pc = "inflight" /\ di = i))

\* beyond MaxTime, in a later pass, the POST for the second course is in flight
C16_Witness ==
    /\ ~hist.bounded
    /\ mono = MaxTime
    /\ hist.passes = 2
    /\ pc = "inflight"
    /\ di = 2

\* the profile ids the pages of the model hold, in first-seen order: none on "x",
\* 77 on "profileId: '77'", 88 and 77 on "?electionProfile.id=88&profileId=77"
IdsOnPage(page) ==
    IF page = PageAssign THEN << <<55, 55>> >>
    ELSE IF page = PageQuery THEN << <<56, 56>>, <<55, 55>> >>
    ELSE <<>>

IsSuffix(q, e) == Len(q) <= Len(e) /\ q = SubSeq(e, Len(e) - Len(q) + 1, Len(e))

\* the for loop over the candidates is running; the candidate at hand, if any, and
\* those still to come
InCandidateLoop == hist.disc.done /\ pc \in {"for_cand", "fetch1", "fetch2"}
Pending == IF pc = "for_cand" THEN queue ELSE <<cur>> \o queue

\* C17 as stated: the candidates are the ids of the warm-up page and of the page
\* without a pid, both fetched, deduplicated in first-seen order, after the typed id.
C17_CandidatesFromBothPages ==
    InCandidateLoop
        => /\ hist.disc.dpFetched
           /\ IsSuffix(Pending,
                       <<pid>> \o DedupFrom(IdsOnPage(hist.disc.warm)
                                            \o IdsOnPage(hist.disc.dp), 1, <<>>))

\* C17 as amended: the pages are fetched after both names failed for the typed id;
\* the page without a pid is fetched only if the warm-up page holds no id, and the
\* candidates are the ids of the warm-up page if it holds any, else those of the
\* other page; they are tried after the typed id, in order, electionProfile.id
\* first and profileId after it failed; no catalog fetch follows an accepted one;
\* the process ends when the list is exhausted without an accepted fetch.
C17_CandidatesFromFirstPageWithIds ==
    /\ [][(~hist.disc.done /\ hist'.disc.done)
            => /\ Len(hist.fetched) = 2
               /\ \A i \in 1..2 : hist.fetched[i].pid = pid /\ ~FetchOk(hist.fetched[i])
               /\ hist.fetched[1].param = "electionProfile.id"
               /\ hist.fetched[2].param = "profileId"]_vars
    /\ [](hist.disc.done => (hist.disc.dpFetched <=> IdsOnPage(hist.disc.warm) = <<>>))
    /\ [](InCandidateLoop
            => IsSuffix(Pending,
                        <<pid>> \o (IF IdsOnPage(hist.disc.warm) # <<>>
                                    THEN IdsOnPage(hist.disc.warm)
                                    ELSE IdsOnPage(hist.disc.dp))))
    /\ []((pc = "fetch2")
            => /\ hist.fetched[Len(hist.fetched)].pid = cur
               /\ hist.fetched[Len(hist.fetched)].param = "electionProfile.id"
               /\ ~FetchOk(hist.fetched[Len(hist.fetched)]))
    /\ [][(hist.fetched # <<>> /\ FetchOk(hist.fetched[Len(hist.fetched)]))
            => hist'.fetched \in {hist.fetched, <<>>}]_vars
    /\ [][(pc = "for_cand" /\ queue = <<>>) => pc' = "final_check"]_vars
    /\ [][(pc = "final_check" /\ ~Accepted(status, text))
            => (pc' = "exited" /\ hist'.exit = "exit1")]_vars

\* the warm-up page held no id, the page without a pid held 88 and 77, the typed id
\* and 88 failed again under both names, and 77, the last candidate, was accepted
C17_Witness ==
    /\ pc = "final_check"
    /\ hist.disc.warm = PageNone
    /\ hist.disc.dpFetched
    /\ hist.disc.dp = PageQuery
    /\ queue = <<>>
    /\ pid = <<55, 55>>
    /\ Accepted(status, text)

\* a catalog fetch has been accepted and not been given up
Validated ==
    \/ pc \in LoopPcs \cup {"select", "grab_courses"}
    \/ (pc = "final_check" /\ Accepted(status, text))

\* C18: once a catalog fetch is accepted the pid is the one of that fetch, no step
\* changes it or fetches the catalog again, and every submission URL carries it.
C18_PidFixedOnceValidated ==
    /\ []((pc = "final_check" /\ Accepted(status, text))
            => /\ hist.fetched # <<>>
               /\ hist.fetched[Len(hist.fetched)].pid = pid
               /\ FetchOk(hist.fetched[Len(hist.fetched)]))
    /\ [][Validated => (pid' = pid /\ hist'.fetched \in {hist.fetched, <<>>})]_vars
    /\ [](pc \in LoopPcs => \A i \in 1..Len(post_urls) : post_urls[i].pid = pid)
    /\ [](req.method = "POST" => req.url.pid = pid)

\* a POST is in flight to a URL with the pid 88 that was found on a page
C18_Witness ==
    /\ pc = "inflight"
    /\ pid = <<56, 56>>
    /\ req.url.pid = <<56, 56>>

\* the ids and the names the claim expects of the records of a body: every id but
\* that of a second record without one; no name when the text before the first
\* "code:" holds none, the first name only when the second record holds none, else
\* every name
IdsOfRecords(layout, recs) ==
    IF layout = "second_idless" /\ Len(recs) >= 2
    THEN <<recs[1][1]>> \o [i \in 1..(Len(recs) - 2) |-> recs[i + 2][1]]
    ELSE [i \in 1..Len(recs) |-> recs[i][1]]

NamesCollected(layout, recs) ==
    IF layout = "code_first" THEN <<>>
    ELSE IF layout = "second_nameless" /\ Len(recs) >= 2 THEN <<recs[1][2]>>
    ELSE [i \in 1..Len(recs) |-> recs[i][2]]

\* C19: the parser returns the ids of the body, the names up to the first chunk
\* without one, n = min of the two lengths and the entries (i, i-th id, i-th name)
\* for i < n, whatever the two lengths; it is fatal exactly when there is no id.
C19_ParseToleratesMismatch ==
    (ret.done /\ call.fn = "parse")
        => LET ids   == IdsOfRecords(call.layout, call.recs)
               names == NamesCollected(call.layout, call.recs)
               cnt   == IF Len(ids) <= Len(names) THEN Len(ids) ELSE Len(names)
           IN /\ ret.id_list = ids
              /\ ret.name_list = names
              /\ ret.n = cnt
              /\ ret.entries = [i \in 1..cnt |-> <<i - 1, ids[i], names[i]>>]
              /\ ret.fatal <=> (ids = <<>>)

\* two ids and one name: "id:1001,name:'Math',code:x,id:1002,code:y," gives the one
\* entry (0, "1001", "Math") and is not fatal
C19_Witness ==
    /\ ret.done
    /\ call.fn = "parse"
    /\ call.layout = "second_nameless"
    /\ Len(call.recs) = 2
    /\ Len(ret.id_list) = 2
    /\ ret.n = 1
    /\ ret.entries = << <<0, call.recs[1][1], call.recs[1][2]>> >>
    /\ ~ret.fatal

\* C20 as stated: every chosen id is the id of one of the cnt entries listed.
C20_ChosenAreListed ==
    (ret.done /\ call.fn = "select")
        => \A i \in 1..Len(ret.chosen) :
              \E k \in 1..call.cnt : ret.chosen[i] = call.ids[k]

\* C20 as amended: every chosen id is one of the parsed course ids, listed or not;
\* one that is not listed was typed as it stands.
C20_ChosenAreParsedIds ==
    (ret.done /\ call.fn = "select")
        => \A i \in 1..Len(ret.chosen) :
              /\ \E k \in 1..Len(call.ids) : ret.chosen[i] = call.ids[k]
              /\ (\A k \in 1..call.cnt : ret.chosen[i] # call.ids[k])
                    => \E j \in 1..Len(call.tokens) : call.tokens[j] = ret.chosen[i]

\* one entry is listed, "1002" is typed and chosen, and it is the id at position 1
C20_Witness ==
    /\ ret.done
    /\ call.fn = "select"
    /\ call.cnt = 1
    /\ call.tokens = << <<49, 48, 48, 50>> >>
    /\ call.ids[2] = <<49, 48, 48, 50>>
    /\ call.ids[1] # <<49, 48, 48, 50>>
    /\ ret.chosen = << <<49, 48, 48, 50>> >>

====
